---- MODULE Spec2Model ----
(***************************************************************************)
(* Cat's Studio 26 (src/catfl4k.py): the audio engine.                     *)
(*                                                                         *)
(* AudioEngine.callback runs on the audio thread, the CatStudio26 handlers *)
(* (play_stop, step_action, reset_knob, update_bpm, do_export with         *)
(* export_wav) on the Tk thread.  The two share the engine object with no  *)
(* lock, so each access to a shared field is a step of its own and the     *)
(* steps of the two threads interleave.                                    *)
(* AudioEngine.start and on_close handle the output device; the four       *)
(* synthesizers and the export normalisation are also modelled as          *)
(* functions of their input.                                               *)
(*                                                                         *)
(* Numbers.  Sample values, gains, pans and meter levels are fixed point   *)
(* with 1000 standing for 1.0.  samplesPerStep = (60/bpm/4)*SAMPLE_RATE is *)
(* the rational SpsNum/bpm; int(x) truncates towards zero.  For every      *)
(* tempo the model uses, Python's float results of int(start/sps) and      *)
(* int(s*sps) equal the exact ones over the sample range explored.         *)
(*                                                                         *)
(* Arrays.  A numpy array is a sequence of runs [n, v] (n equal samples of  *)
(* value v); a stereo array is a sequence of runs [n, l, r].               *)
(***************************************************************************)
EXTENDS Integers, Sequences, FiniteSets, TLC

VARIABLES
    bpm,            \* self.bpm
    playing,        \* self.playing
    sample_pos,     \* self.sample_pos
    current_step,   \* self.current_step
    channels,       \* self.channels: sequence of [data, steps, vol, pan]
    voices,         \* self.voices: sequence of Voice records
    meter_levels,   \* self.meter_levels
    outdata,        \* the block the last finished callback handed to the device
    cb_pc,          \* where the audio thread is inside callback
    cb,             \* callback's local variables
    ui_pc,          \* where the Tk thread is inside play_stop
    blocks_left,    \* callbacks the device may still request
    presses_left,   \* Play/Stop clicks the user may still make
    edits_left,     \* tempo, step and knob edits the user may still make
    h_log,          \* history: the step boundaries triggered since the cold start
    ex_pc,          \* where the Tk thread is inside do_export / export_wav
    ex,             \* export_wav's local variables
    wav,            \* the file at the path the user chose in the save dialog
    dialog,         \* the message box the last do_export has shown
    exports_left,   \* exports the user may still start
    h_exports,      \* history: one record per export that has ended
    stream,         \* self.stream, and whether the device is running it
    reports,        \* "Audio Device Error" lines printed so far
    syn             \* one call of a synthesizer or of a normalisation: input and result

vars == <<bpm, playing, sample_pos, current_step, channels, voices, meter_levels,
          outdata, cb_pc, cb, ui_pc, blocks_left, presses_left, edits_left, h_log,
          ex_pc, ex, wav, dialog, exports_left, h_exports, stream, reports, syn>>

engine == <<bpm, playing, sample_pos, current_step, channels, voices, meter_levels>>

export == <<ex_pc, ex, wav, dialog, exports_left, h_exports>>

device == <<stream, reports>>

---------------------------------------------------------------------------
(* Program constants *)

SAMPLE_RATE == 44100
BLOCK_SIZE == 512
MAX_VOICES == 64

(* Bounds of the model *)

\* callbacks in a run with the user at work
MaxBlocks == 3
\* Play/Stop clicks in such a run
MaxPresses == 3
\* edits (tempo, step, knob) in such a run
MaxEdits == 1
\* callbacks in an undisturbed playback run
SeqBlocks == 442
\* the device asks for no further block once more voices than this are live
MaxLiveVoices == 70
\* exports in a run with exports
MaxExports == 2
\* callbacks in such a run
ExpBlocks == 1
\* callbacks in a playback run with tempo edits between them
TempoBlocks == 19
\* render calls, Play/Stop clicks and exports in a run in silent mode
DevBlocks == 1
DevPresses == 2
DevExports == 1

---------------------------------------------------------------------------
(* Arithmetic *)

Abs(x) == IF x < 0 THEN -x ELSE x

Min(a, b) == IF a <= b THEN a ELSE b

Max(a, b) == IF a >= b THEN a ELSE b

\* int(a / b) of Python for b # 0: the quotient truncated towards zero
TruncDiv(a, b) ==
    IF (a >= 0) = (b > 0) THEN Abs(a) \div Abs(b) ELSE -(Abs(a) \div Abs(b))

\* x * y of two fixed-point numbers
MulFx(x, y) == TruncDiv(x * y, 1000)

\* sps = (60 / bpm / 4) * SAMPLE_RATE = SpsNum / bpm
SpsNum == 15 * SAMPLE_RATE

\* int(pos / sps)
StepOf(pos, tempo) == TruncDiv(pos * tempo, SpsNum)

\* int(s * sps)
TriggerTime(s, tempo) == TruncDiv(s * SpsNum, tempo)

\* np.cos(pan * np.pi / 2) and np.sin(pan * np.pi / 2)
PanDomain == {0, 400, 500, 600, 1000}

CosPan == [p \in PanDomain |->
             CASE p = 0 -> 1000 [] p = 400 -> 809 [] p = 500 -> 707
               [] p = 600 -> 588 [] OTHER -> 0]

SinPan == [p \in PanDomain |-> CosPan[1000 - p]]

---------------------------------------------------------------------------
(* Arrays as runs *)

RECURSIVE ArrLen(_)
ArrLen(a) == IF a = <<>> THEN 0 ELSE Head(a).n + ArrLen(Tail(a))

\* a[m:] for 0 <= m
RECURSIVE Drop(_, _)
Drop(a, m) ==
    IF a = <<>> \/ m = 0 THEN a
    ELSE IF Head(a).n <= m THEN Drop(Tail(a), m - Head(a).n)
    ELSE <<[Head(a) EXCEPT !.n = @ - m]>> \o Tail(a)

\* a[:m] for 0 <= m
RECURSIVE Take(_, _)
Take(a, m) ==
    IF a = <<>> \/ m = 0 THEN <<>>
    ELSE IF Head(a).n <= m THEN <<Head(a)>> \o Take(Tail(a), m - Head(a).n)
    ELSE <<[Head(a) EXCEPT !.n = m]>>

\* a[pos : pos + count]
Slice(a, pos, count) == Take(Drop(a, pos), count)

\* a * k, elementwise
Scaled(a, k) == [i \in 1..Len(a) |-> [a[i] EXCEPT !.v = MulFx(@, k)]]

\* np.max(np.abs(a)) of a mono array
RECURSIVE MaxAbs(_)
MaxAbs(a) == IF a = <<>> THEN 0 ELSE Max(Abs(Head(a).v), MaxAbs(Tail(a)))

\* np.max(np.abs(out)) of a stereo array
RECURSIVE MaxAbs2(_)
MaxAbs2(a) ==
    IF a = <<>> THEN 0
    ELSE Max(Max(Abs(Head(a).l), Abs(Head(a).r)), MaxAbs2(Tail(a)))

\* np.zeros((n, 2))
Zeros2(n) == IF n = 0 THEN <<>> ELSE <<[n |-> n, l |-> 0, r |-> 0]>>

\* out[:len(chunk), 0] += chunk * lg ; out[:len(chunk), 1] += chunk * rg
RECURSIVE AddPrefix(_, _, _, _)
AddPrefix(out, chunk, lg, rg) ==
    IF chunk = <<>> THEN out
    ELSE LET x == Head(out)
             y == Head(chunk)
             m == Min(x.n, y.n)
         IN  <<[n |-> m, l |-> x.l + MulFx(y.v, lg), r |-> x.r + MulFx(y.v, rg)]>>
             \o AddPrefix(Drop(out, m), Drop(chunk, m), lg, rg)

ClipNone(out) == out

\* np.clip(out, -1.0, 1.0, out=out)
Clip(out) ==
    [i \in 1..Len(out) |->
        [out[i] EXCEPT !.l = Max(-1000, Min(1000, @)),
                       !.r = Max(-1000, Min(1000, @))]]

---------------------------------------------------------------------------
(* The kit *)

\* The buffer a synthesizer returns: n samples, normalised to peak 1.  Its
\* noise content is random; the model takes a stand-in with the peak in the
\* first `head` samples and a quieter tail of the other sign.
SynthBuffer(n, head, tail) ==
    IF n = 0 THEN <<>>
    ELSE IF n <= head THEN <<[n |-> n, v |-> 1000]>>
    ELSE <<[n |-> head, v |-> 1000], [n |-> n - head, v |-> -tail]>>

\* n = int(SAMPLE_RATE * duration), duration in thousandths of a second
SynthLen(ms) == (SAMPLE_RATE * ms) \div 1000

synth_kick(ms) == SynthBuffer(SynthLen(ms), SynthLen(5), 600)

synth_clap(ms) == SynthBuffer(SynthLen(ms), SynthLen(12), 300)

synth_hat(ms, open_hat) == SynthBuffer(SynthLen(ms), 100, IF open_hat THEN 500 ELSE 200)

synth_snare(ms) == SynthBuffer(SynthLen(ms), 200, 400)

\* The five buffers load_kit creates, by identity: channel i holds buffer i.
Buffer == <<synth_kick(500), synth_clap(400), synth_hat(80, FALSE),
            synth_hat(400, TRUE), synth_snare(250)>>

BufLen == [b \in 1..Len(Buffer) |-> ArrLen(Buffer[b])]

\* AudioEngine.load_kit: the channel table
KitChannels ==
    << [data |-> 1, steps |-> <<1,0,0,0,0,0,0,0,1,0,0,0,0,0,0,0>>, vol |-> 900, pan |-> 500],
       [data |-> 2, steps |-> <<0,0,0,0,1,0,0,0,0,0,0,0,1,0,0,0>>, vol |-> 800, pan |-> 500],
       [data |-> 3, steps |-> <<1,1,1,1,1,1,1,1,1,1,1,1,1,1,1,1>>, vol |-> 600, pan |-> 400],
       [data |-> 4, steps |-> <<0,0,1,0,0,0,1,0,0,0,1,0,0,0,1,0>>, vol |-> 600, pan |-> 600],
       [data |-> 5, steps |-> <<0,0,0,0,0,0,0,0,0,0,0,0,0,0,0,1>>, vol |-> 800, pan |-> 500] >>

NumCh == Len(KitChannels)

\* Voice.__init__.  The h_ fields are history: h_off is the local `offset` of
\* the trigger that made the voice, which callback computes and does not pass
\* on; h_done counts the samples the voice has added to the output so far and
\* h_calls the render calls that mixed it; h_vol and h_pan are the channel's
\* gain and pan at the trigger and h_ch is the index of the channel whose
\* step triggered the voice.
Voice(data, vol, pan, off, ch) ==
    [data |-> data, pos |-> 0, vol |-> vol, pan |-> pan, h_off |-> off,
     h_done |-> 0, h_calls |-> 0, h_vol |-> vol, h_pan |-> pan, h_ch |-> ch]

---------------------------------------------------------------------------
(* callback, lines 191-218: the voice loop *)

MeteredByVol(energy, chans, v, peak) ==
    [i \in 1..Len(energy) |->
        IF i <= Len(chans) /\ chans[i].vol = v.vol
        THEN Max(energy[i], peak) ELSE energy[i]]

\* for i, ch in enumerate(self.channels): if ch['data'] is v.data: ...
Metered(energy, chans, v, peak) ==
    [i \in 1..Len(energy) |->
        IF i <= Len(chans) /\ chans[i].data = v.data
        THEN Max(energy[i], peak) ELSE energy[i]]

MixVoiceRepeat(acc, v, chans, nframes) ==
    LET remain == BufLen[v.data] - v.pos
        count  == Min(nframes, remain)
        chunk  == Scaled(Slice(Buffer[v.data], v.pos, count), v.vol)
        moved  == [v EXCEPT !.pos = v.pos + count - 1,
                            !.h_done = @ + count, !.h_calls = @ + 1]
    IN  IF remain <= 0
        THEN acc
        ELSE [out    |-> AddPrefix(acc.out, chunk, CosPan[v.pan], SinPan[v.pan]),
              active |-> IF moved.pos < BufLen[v.data]
                         THEN Append(acc.active, moved) ELSE acc.active,
              energy |-> Metered(acc.energy, chans, v, MaxAbs(chunk)),
              placed |-> Append(acc.placed,
                                [data |-> v.data, pos |-> v.pos, frame |-> 0,
                                 count |-> count, vol |-> v.vol, pan |-> v.pan,
                                 h_off |-> v.h_off, h_done |-> v.h_done,
                                 h_calls |-> v.h_calls, h_vol |-> v.h_vol,
                                 h_pan |-> v.h_pan, h_ch |-> v.h_ch])]

MixVoiceKeep(acc, v, chans, nframes) ==
    LET remain == BufLen[v.data] - v.pos
        count  == Min(nframes, remain)
        chunk  == Scaled(Slice(Buffer[v.data], v.pos, count), v.vol)
        moved  == [v EXCEPT !.pos = v.pos + count,
                            !.h_done = @ + count, !.h_calls = @ + 1]
    IN  IF remain <= 0
        THEN acc
        ELSE [out    |-> AddPrefix(acc.out, chunk, CosPan[v.pan], SinPan[v.pan]),
              active |-> IF moved.pos <= BufLen[v.data]
                         THEN Append(acc.active, moved) ELSE acc.active,
              energy |-> Metered(acc.energy, chans, v, MaxAbs(chunk)),
              placed |-> Append(acc.placed,
                                [data |-> v.data, pos |-> v.pos, frame |-> 0,
                                 count |-> count, vol |-> v.vol, pan |-> v.pan,
                                 h_off |-> v.h_off, h_done |-> v.h_done,
                                 h_calls |-> v.h_calls, h_vol |-> v.h_vol,
                                 h_pan |-> v.h_pan, h_ch |-> v.h_ch])]

MixVoiceLive(acc, v, chans, nframes) ==
    LET remain == BufLen[v.data] - v.pos
        count  == Min(nframes, remain)
        live   == chans[v.h_ch]
        chunk  == Scaled(Slice(Buffer[v.data], v.pos, count), live.vol)
        moved  == [v EXCEPT !.pos = v.pos + count,
                            !.h_done = @ + count, !.h_calls = @ + 1]
    IN  IF remain <= 0
        THEN acc
        ELSE [out    |-> AddPrefix(acc.out, chunk, CosPan[live.pan], SinPan[live.pan]),
              active |-> IF moved.pos < BufLen[v.data]
                         THEN Append(acc.active, moved) ELSE acc.active,
              energy |-> Metered(acc.energy, chans, v, MaxAbs(chunk)),
              placed |-> Append(acc.placed,
                                [data |-> v.data, pos |-> v.pos, frame |-> 0,
                                 count |-> count, vol |-> live.vol, pan |-> live.pan,
                                 h_off |-> v.h_off, h_done |-> v.h_done,
                                 h_calls |-> v.h_calls, h_vol |-> v.h_vol,
                                 h_pan |-> v.h_pan, h_ch |-> v.h_ch])]

\* one iteration of `for v in self.voices`.  acc = [out, active, energy, placed];
\* placed is history, one record per chunk added: which buffer samples
\* (pos, count) of which voice went to which output frame, with the gain and
\* the pan applied to them.  v.pos += count is written to the Voice object in
\* place; the object is read again only through `active`.
MixVoice(acc, v, chans, nframes) ==
    LET remain == BufLen[v.data] - v.pos
        count  == Min(nframes, remain)
        chunk  == Scaled(Slice(Buffer[v.data], v.pos, count), v.vol)
        moved  == [v EXCEPT !.pos = v.pos + count,
                            !.h_done = @ + count, !.h_calls = @ + 1]
    IN  IF remain <= 0
        THEN acc
        ELSE [out    |-> AddPrefix(acc.out, chunk, CosPan[v.pan], SinPan[v.pan]),
              active |-> IF moved.pos < BufLen[v.data]
                         THEN Append(acc.active, moved) ELSE acc.active,
              energy |-> Metered(acc.energy, chans, v, MaxAbs(chunk)),
              placed |-> Append(acc.placed,
                                [data |-> v.data, pos |-> v.pos, frame |-> 0,
                                 count |-> count, vol |-> v.vol, pan |-> v.pan,
                                 h_off |-> v.h_off, h_done |-> v.h_done,
                                 h_calls |-> v.h_calls, h_vol |-> v.h_vol,
                                 h_pan |-> v.h_pan, h_ch |-> v.h_ch])]

DecayedHold(levels, energy) ==
    [i \in 1..Len(levels) |-> Max(energy[i], levels[i])]

\* meter_levels[i] = max(mix_energy[i], meter_levels[i] * 0.9)
Decayed(levels, energy) ==
    [i \in 1..Len(levels) |-> Max(energy[i], (levels[i] * 9) \div 10)]

---------------------------------------------------------------------------
(* AudioEngine.callback, the audio thread *)

\* the stream is opened with blocksize=BLOCK_SIZE
frames == BLOCK_SIZE

CbIdle ==
    [start |-> 0, end |-> 0, tempo |-> 0, s |-> 0, end_step |-> 0, step_idx |-> 0,
     offset |-> 0, c |-> 0, pos_read |-> 0, out |-> <<>>, iter |-> <<>>,
     active |-> <<>>,
     mix_energy |-> <<>>, placed |-> <<>>, h_snap |-> <<>>, h_first |-> 0]

\* lines 165-167: out = np.zeros(...); if self.playing.  h_snap and h_first are
\* history: the channel table and the length of the trigger log at entry.
CbEnter ==
    /\ cb_pc \in {"idle", "raised"}
    /\ blocks_left > 0
    /\ Len(voices) <= MaxLiveVoices
    /\ blocks_left' = blocks_left - 1
    /\ cb' = [CbIdle EXCEPT !.out = Zeros2(frames), !.h_snap = channels,
                            !.h_first = Len(h_log)]
    /\ cb_pc' = IF playing THEN "sps" ELSE "mix"
    /\ UNCHANGED <<device, syn, export, engine, outdata, ui_pc, presses_left, edits_left, h_log>>

\* line 168: sps = (60 / self.bpm / 4) * SAMPLE_RATE
CbSps ==
    /\ cb_pc = "sps"
    /\ bpm # 0
    /\ cb' = [cb EXCEPT !.tempo = bpm]
    /\ cb_pc' = "range"
    /\ UNCHANGED <<device, syn, export, engine, outdata, ui_pc, blocks_left, presses_left, edits_left, h_log>>

\* line 168 with self.bpm = 0: 60 / 0 raises ZeroDivisionError, which leaves
\* callback; nothing is written to outdata
CbSpsRaise ==
    /\ cb_pc = "sps"
    /\ bpm = 0
    /\ cb' = CbIdle
    /\ cb_pc' = "raised"
    /\ UNCHANGED <<device, syn, export, engine, outdata, ui_pc, blocks_left, presses_left, edits_left, h_log>>

CbRangeReread ==
    /\ cb_pc = "range"
    /\ LET live == IF bpm > 0 THEN bpm ELSE cb.tempo
       IN  cb' = [cb EXCEPT !.tempo = live,
                            !.start = sample_pos,
                            !.end = sample_pos + frames,
                            !.s = StepOf(sample_pos, live),
                            !.end_step = StepOf(sample_pos + frames, live)]
    /\ cb_pc' = "loop"
    /\ UNCHANGED <<device, syn, export, engine, outdata, ui_pc, blocks_left, presses_left, edits_left, h_log>>

\* lines 169-176: start, end, start_step, end_step; s starts at start_step
CbRange ==
    /\ cb_pc = "range"
    /\ cb' = [cb EXCEPT !.start = sample_pos,
                        !.end = sample_pos + frames,
                        !.s = StepOf(sample_pos, cb.tempo),
                        !.end_step = StepOf(sample_pos + frames, cb.tempo)]
    /\ cb_pc' = "loop"
    /\ UNCHANGED <<device, syn, export, engine, outdata, ui_pc, blocks_left, presses_left, edits_left, h_log>>

InBlockStrict(s) ==
    /\ cb.start < TriggerTime(s, cb.tempo)
    /\ TriggerTime(s, cb.tempo) < cb.end

\* line 178: start <= trigger_time < end
InBlock(s) ==
    /\ cb.start <= TriggerTime(s, cb.tempo)
    /\ TriggerTime(s, cb.tempo) < cb.end

\* the steps of range(s, end_step + 1) that pass the test of line 178
Due == {s \in cb.s .. cb.end_step : InBlock(s)}

\* lines 176-181: the loop runs on to the next s that passes line 178
CbTrigger ==
    /\ cb_pc = "loop"
    /\ Due # {}
    /\ LET s == CHOOSE x \in Due : \A y \in Due : x <= y
           T == TriggerTime(s, cb.tempo)
       IN  /\ cb' = [cb EXCEPT !.s = s, !.offset = T - cb.start,
                               !.step_idx = s % 16, !.c = 1]
           /\ current_step' = s % 16
           /\ h_log' = Append(h_log, [k |-> s, T |-> T, S |-> cb.start,
                                      idx |-> s % 16, made |-> <<>>])
    /\ cb_pc' = "chan"
    /\ UNCHANGED <<device, syn, export, bpm, playing, sample_pos, channels, voices, meter_levels, outdata,
                   ui_pc, blocks_left, presses_left, edits_left>>

\* line 176: the range is exhausted
CbLoopEnd ==
    /\ cb_pc = "loop"
    /\ Due = {}
    /\ cb_pc' = "adv_read"
    /\ UNCHANGED <<device, syn, export, engine, outdata, cb, ui_pc, blocks_left, presses_left, edits_left, h_log>>

\* line 185: if ch['steps'][step_idx]
StepOn(ch, step_idx) == ch.steps[step_idx + 1] # 0

\* lines 184-187, one channel of `for ch in self.channels`
CbChan ==
    /\ cb_pc = "chan"
    /\ LET ch == channels[cb.c]
           on == StepOn(ch, cb.step_idx)
       IN  /\ voices' = IF on
                        THEN Append(voices, Voice(ch.data, ch.vol, ch.pan, cb.offset, cb.c))
                        ELSE voices
           /\ h_log' = IF on
                       THEN [h_log EXCEPT ![Len(h_log)].made =
                               Append(@, [ch |-> cb.c, vol |-> ch.vol, pan |-> ch.pan])]
                       ELSE h_log
    /\ IF cb.c < Len(channels)
       THEN /\ cb' = [cb EXCEPT !.c = @ + 1]
            /\ cb_pc' = "chan"
       ELSE /\ cb' = [cb EXCEPT !.c = 0, !.s = @ + 1]
            /\ cb_pc' = "loop"
    /\ UNCHANGED <<device, syn, export, bpm, playing, sample_pos, current_step, channels, meter_levels,
                   outdata, ui_pc, blocks_left, presses_left, edits_left>>

\* line 189, the read of  self.sample_pos += frames
CbAdvRead ==
    /\ cb_pc = "adv_read"
    /\ cb' = [cb EXCEPT !.pos_read = sample_pos]
    /\ cb_pc' = "adv_write"
    /\ UNCHANGED <<device, syn, export, engine, outdata, ui_pc, blocks_left, presses_left, edits_left, h_log>>

\* line 189, the write of  self.sample_pos += frames
CbAdvWrite ==
    /\ cb_pc = "adv_write"
    /\ sample_pos' = cb.pos_read + frames
    /\ cb_pc' = "mix"
    /\ UNCHANGED <<device, syn, export, bpm, playing, current_step, channels, voices, meter_levels, outdata,
                   cb, ui_pc, blocks_left, presses_left, edits_left, h_log>>

\* lines 192-195: active = []; mix_energy = [0.0] * len(self.meter_levels); the
\* loop takes the list self.voices names now, whatever play_stop binds later
CbMixStart ==
    /\ cb_pc = "mix"
    /\ cb' = [cb EXCEPT !.iter = voices, !.active = <<>>, !.placed = <<>>,
                        !.mix_energy = [i \in 1..Len(meter_levels) |-> 0]]
    /\ cb_pc' = IF voices = <<>> THEN "finish" ELSE "voice"
    /\ UNCHANGED <<device, syn, export, engine, outdata, ui_pc, blocks_left, presses_left, edits_left, h_log>>

\* lines 195-218, one voice of `for v in self.voices`
CbMixVoice ==
    /\ cb_pc = "voice"
    /\ LET r == MixVoice([out |-> cb.out, active |-> cb.active,
                          energy |-> cb.mix_energy, placed |-> cb.placed],
                         Head(cb.iter), channels, frames)
       IN  cb' = [cb EXCEPT !.out = r.out, !.active = r.active,
                            !.mix_energy = r.energy, !.placed = r.placed,
                            !.iter = Tail(cb.iter)]
    /\ cb_pc' = IF Tail(cb.iter) = <<>> THEN "finish" ELSE "voice"
    /\ UNCHANGED <<device, syn, export, engine, outdata, ui_pc, blocks_left, presses_left, edits_left, h_log>>

\* lines 220-232: self.voices = active; master peak; meters; clip; outdata[:] = out
CbFinish ==
    /\ cb_pc = "finish"
    /\ voices' = cb.active
    /\ LET master_peak == IF Len(cb.out) > 0 THEN MaxAbs2(cb.out) ELSE 0
           mix_energy  == [cb.mix_energy EXCEPT ![Len(cb.mix_energy)] = master_peak]
       IN  meter_levels' = Decayed(meter_levels, mix_energy)
    /\ outdata' = Clip(cb.out)
    /\ cb' = CbIdle
    /\ cb_pc' = "idle"
    /\ UNCHANGED <<device, syn, export, bpm, playing, sample_pos, current_step, channels, ui_pc,
                   blocks_left, presses_left, edits_left, h_log>>

---------------------------------------------------------------------------
(* The CatStudio26 handlers, the Tk thread *)

StepActionRow(chans, ch_idx, step_idx, is_left_click) ==
    [chans EXCEPT ![ch_idx + 1].steps =
        [i \in 1..16 |-> IF is_left_click THEN 1 - @[i] ELSE 0]]

\* step_action, lines 661-665
StepAction(chans, ch_idx, step_idx, is_left_click) ==
    [chans EXCEPT ![ch_idx + 1].steps[step_idx + 1] =
        IF is_left_click THEN 1 - @ ELSE 0]

\* reset_knob, lines 697-698
ResetKnob(chans, ch_idx, k_type) ==
    IF k_type = "vol" THEN [chans EXCEPT ![ch_idx + 1].vol = 800]
    ELSE IF k_type = "pan" THEN [chans EXCEPT ![ch_idx + 1].pan = 500]
    ELSE chans

\* int(self.ent_bpm.get()) for the texts the model types into the tempo box;
\* ok = FALSE is the ValueError of a text that is no integer
ParseInt(text) ==
    CASE text = "0"     -> [ok |-> TRUE, val |-> 0]
      [] text = "-140"  -> [ok |-> TRUE, val |-> -140]
      [] text = "1000"  -> [ok |-> TRUE, val |-> 1000]
      [] text = "70"    -> [ok |-> TRUE, val |-> 70]
      [] text = "280"   -> [ok |-> TRUE, val |-> 280]
      [] OTHER          -> [ok |-> FALSE, val |-> 0]

\* update_bpm, lines 702-703: no clamp; a ValueError is swallowed
NewBpm(old, text) == IF ParseInt(text).ok THEN ParseInt(text).val ELSE old

\* what the user types into the tempo box
BpmTexts == {"0", "-140", "1000", "abc"}

\* the grid cells (channel, step) the user clicks
EditCells == {<<0, 0>>, <<1, 0>>}

\* the channels whose knobs the user right-clicks
KnobChans == {0, 2}

\* build_ui, lines 378-379: the Play and the Stop button of the transport
\* bar, and the command each is created with
Buttons == {"play", "stop"}

ButtonCommand == [button \in Buttons |-> "toggle_play"]

\* play_stop, line 242: self.playing = not self.playing
AfterClick(button, flag) ==
    IF ButtonCommand[button] = "toggle_play" THEN ~flag ELSE flag

\* a click on a transport button: toggle_play -> play_stop, lines 242-243
\* and 247-248
PlayStop ==
    /\ ui_pc = "idle"
    /\ ex_pc = "idle"
    /\ presses_left > 0
    /\ presses_left' = presses_left - 1
    /\ \E button \in Buttons : playing' = AfterClick(button, playing)
    /\ ui_pc' = IF playing THEN "stop_pos" ELSE "idle"
    /\ UNCHANGED <<device, syn, export, bpm, sample_pos, current_step, channels, voices, meter_levels,
                   outdata, cb_pc, cb, blocks_left, edits_left, h_log>>

\* play_stop, line 244: self.sample_pos = 0
PlayStopPos ==
    /\ ui_pc = "stop_pos"
    /\ sample_pos' = 0
    /\ ui_pc' = "stop_step"
    /\ UNCHANGED <<device, syn, export, bpm, playing, current_step, channels, voices, meter_levels, outdata,
                   cb_pc, cb, blocks_left, presses_left, edits_left, h_log>>

\* play_stop, line 245: self.current_step = 0
PlayStopStep ==
    /\ ui_pc = "stop_step"
    /\ current_step' = 0
    /\ ui_pc' = "stop_voices"
    /\ UNCHANGED <<device, syn, export, bpm, playing, sample_pos, channels, voices, meter_levels, outdata,
                   cb_pc, cb, blocks_left, presses_left, edits_left, h_log>>

\* play_stop, line 246: self.voices = []
PlayStopVoices ==
    /\ ui_pc = "stop_voices"
    /\ voices' = <<>>
    /\ ui_pc' = "idle"
    /\ UNCHANGED <<device, syn, export, bpm, playing, sample_pos, current_step, channels, meter_levels,
                   outdata, cb_pc, cb, blocks_left, presses_left, edits_left, h_log>>

\* update_bpm on <Return> in the tempo box
UpdateBpm ==
    /\ ui_pc = "idle"
    /\ ex_pc = "idle"
    /\ edits_left > 0
    /\ edits_left' = edits_left - 1
    /\ \E text \in BpmTexts : bpm' = NewBpm(bpm, text)
    /\ UNCHANGED <<device, syn, export, playing, sample_pos, current_step, channels, voices, meter_levels,
                   outdata, cb_pc, cb, ui_pc, blocks_left, presses_left, h_log>>

\* tempos inside the range of the tempo box that the user types during playback
RangeTexts == {"70", "280"}

\* update_bpm on <Return> in the tempo box, with a tempo of RangeTexts
UpdateBpmInRange ==
    /\ ui_pc = "idle"
    /\ ex_pc = "idle"
    /\ edits_left > 0
    /\ edits_left' = edits_left - 1
    /\ \E text \in RangeTexts : bpm' = NewBpm(bpm, text)
    /\ UNCHANGED <<device, syn, export, playing, sample_pos, current_step, channels, voices, meter_levels,
                   outdata, cb_pc, cb, ui_pc, blocks_left, presses_left, h_log>>

\* step_action on a left or right click on a grid cell
StepClick ==
    /\ ui_pc = "idle"
    /\ ex_pc = "idle"
    /\ edits_left > 0
    /\ edits_left' = edits_left - 1
    /\ \E cell \in EditCells, is_left_click \in BOOLEAN :
          channels' = StepAction(channels, cell[1], cell[2], is_left_click)
    /\ UNCHANGED <<device, syn, export, bpm, playing, sample_pos, current_step, voices, meter_levels,
                   outdata, cb_pc, cb, ui_pc, blocks_left, presses_left, h_log>>

\* reset_knob on a right click on a knob
KnobClick ==
    /\ ui_pc = "idle"
    /\ ex_pc = "idle"
    /\ edits_left > 0
    /\ edits_left' = edits_left - 1
    /\ \E ch_idx \in KnobChans, k_type \in {"vol", "pan"} :
          channels' = ResetKnob(channels, ch_idx, k_type)
    /\ UNCHANGED <<device, syn, export, bpm, playing, sample_pos, current_step, voices, meter_levels,
                   outdata, cb_pc, cb, ui_pc, blocks_left, presses_left, h_log>>

---------------------------------------------------------------------------
(* AudioEngine.export_wav and CatStudio26.do_export, on the Tk thread *)

\* The export buffer `out` is a sequence of segments [from, to, l, r]: frames
\* from .. to-1 hold the stereo sample (l, r).

\* np.zeros((total_len, 2)) for total_len > 0
ExpZeros(n) == <<[from |-> 0, to |-> n, l |-> 0, r |-> 0]>>

\* runs [n, l, r] laid out from frame `from` on
RECURSIVE Positioned(_, _)
Positioned(runs, from) ==
    IF runs = <<>> THEN <<>>
    ELSE <<[from |-> from, to |-> from + Head(runs).n,
            l |-> Head(runs).l, r |-> Head(runs).r]>>
         \o Positioned(Tail(runs), from + Head(runs).n)

\* the segment that holds frame x
SegAt(out, x) == CHOOSE i \in 1..Len(out) : out[i].from <= x /\ x < out[i].to

\* out[t:t+n, 0] += chunk * lg ; out[t:t+n, 1] += chunk * rg  with n = len(chunk)
\* and 0 <= t, t + n <= len(out)
AddAt(out, t, chunk, lg, rg) ==
    LET n      == ArrLen(chunk)
        i0     == SegAt(out, t)
        i1     == SegAt(out, t + n - 1)
        window == [i \in 1..(i1 - i0 + 1) |->
                     LET g == out[i0 + i - 1]
                     IN  [n |-> Min(g.to, t + n) - Max(g.from, t), l |-> g.l, r |-> g.r]]
        before == SubSeq(out, 1, i0 - 1)
                  \o (IF out[i0].from < t THEN <<[out[i0] EXCEPT !.to = t]>> ELSE <<>>)
        after  == (IF t + n < out[i1].to THEN <<[out[i1] EXCEPT !.from = t + n]>> ELSE <<>>)
                  \o SubSeq(out, i1 + 1, Len(out))
    IN  IF n = 0 THEN out
        ELSE before \o Positioned(AddPrefix(window, chunk, lg, rg), t) \o after

\* np.max(np.abs(out)) of the export buffer
ExpPeak(out) ==
    LET S == {Max(Abs(out[i].l), Abs(out[i].r)) : i \in 1..Len(out)}
    IN  CHOOSE x \in S : \A y \in S : y <= x

NormalizedNone(out, m) == out

\* out /= m
Normalized(out, m) ==
    [i \in 1..Len(out) |->
        [out[i] EXCEPT !.l = TruncDiv(@ * 1000, m), !.r = TruncDiv(@ * 1000, m)]]

\* lines 270-271: m = np.max(np.abs(out)); if m > 0: out /= m
ExpNormalize(out) ==
    LET m == ExpPeak(out)
    IN  IF m > 0 THEN Normalized(out, m) ELSE out

\* (out * 32767).astype(np.int16): the 16-bit samples of the data chunk
Pcm16(out) ==
    [i \in 1..Len(out) |->
        [out[i] EXCEPT !.l = TruncDiv(@ * 32767, 1000), !.r = TruncDiv(@ * 32767, 1000)]]

\* line 252: sps = int((60 / self.bpm / 4) * SAMPLE_RATE), for bpm > 0
ExpSps(tempo) == SpsNum \div tempo

\* line 258: time_idx = (bar * 16 + s) * sps
ExpTimeIdx(bar, s, sps) == (bar * 16 + s) * sps

\* lines 259-267, `for ch in self.channels` from channel c on.  acc = [out,
\* placed]; placed is history: one record per buffer added to out.
RECURSIVE ExpChannels(_, _, _, _, _, _)
ExpChannels(acc, chans, c, s, time_idx, total_len) ==
    IF c > Len(chans) THEN acc
    ELSE LET ch   == chans[c]
             slen == BufLen[ch.data]
             done == IF StepOn(ch, s) /\ time_idx + slen < total_len
                     THEN [out    |-> AddAt(acc.out, time_idx, Scaled(Buffer[ch.data], ch.vol),
                                            CosPan[ch.pan], SinPan[ch.pan]),
                           placed |-> Append(acc.placed,
                                             [ch |-> c, at |-> time_idx, len |-> slen])]
                     ELSE acc
         IN  ExpChannels(done, chans, c + 1, s, time_idx, total_len)

WavFileFromCursor(out) ==
    [state |-> "complete", nchannels |-> 2, sampwidth |-> 2, framerate |-> SAMPLE_RATE,
     nframes |-> out[Len(out)].to - sample_pos, frames |-> Pcm16(out)]

\* the file a finished wave.open(...) block leaves: header fields and frames
WavFile(out) ==
    [state |-> "complete", nchannels |-> 2, sampwidth |-> 2, framerate |-> SAMPLE_RATE,
     nframes |-> out[Len(out)].to, frames |-> Pcm16(out)]

\* no file at the path
WavNone == [state |-> "none"]

\* the file after open(path, 'wb') and before close() has succeeded: created
\* or truncated, with the header and the frames written so far
WavPartial == [state |-> "partial"]

ExIdle ==
    [sps |-> 0, total_len |-> 0, bar |-> 0, s |-> 0, out |-> <<>>, placed |-> <<>>,
     h_transport |-> <<>>]

\* the record h_exports keeps of an export that has ended
Ended(result, file) ==
    [chans |-> channels, bpm |-> bpm, transport |-> ex.h_transport,
     result |-> result, file |-> file]

\* do_export lines 706-708, export_wav lines 252-254: the user has chosen a
\* path; sps, total_len, out.  With self.bpm <= 0 line 252 or 254 raises; the
\* runs with exports keep the tempo the engine starts with.  h_transport is
\* history: the transport when the export starts.
ExpBegin ==
    /\ ui_pc = "idle"
    /\ ex_pc = "idle"
    /\ exports_left > 0
    /\ bpm > 0
    /\ exports_left' = exports_left - 1
    /\ dialog' = "none"
    /\ LET sps == ExpSps(bpm)
       IN  ex' = [ExIdle EXCEPT !.sps = sps, !.total_len = sps * 16 * 4,
                                !.out = ExpZeros(sps * 16 * 4),
                                !.h_transport = <<playing, sample_pos, Len(voices), meter_levels>>]
    /\ ex_pc' = "place"
    /\ UNCHANGED <<device, syn, engine, outdata, cb_pc, cb, ui_pc, blocks_left, presses_left,
                   edits_left, h_log, wav, h_exports>>

\* lines 257-267, `for s in range(16)` for the n steps from s on
RECURSIVE ExpSteps(_, _, _, _, _, _, _)
ExpSteps(acc, chans, bar, s, n, sps, total_len) ==
    IF n = 0 THEN acc
    ELSE ExpSteps(ExpChannels(acc, chans, 1, s, ExpTimeIdx(bar, s, sps), total_len),
                  chans, bar, s + 1, n - 1, sps, total_len)

\* lines 256-267, four steps (a beat) of one bar.  export_wav reads self.bpm
\* and self.channels only; no other handler runs on the Tk thread meanwhile and
\* callback writes neither, so the beat is one step.
ExpPlace ==
    /\ ex_pc = "place"
    /\ LET r == ExpSteps([out |-> ex.out, placed |-> ex.placed], channels, ex.bar, ex.s,
                         4, ex.sps, ex.total_len)
           last_s   == ex.s = 12
           last_bar == ex.bar = 3
       IN  /\ ex' = [ex EXCEPT !.out = r.out, !.placed = r.placed,
                               !.s = IF last_s THEN 0 ELSE @ + 4,
                               !.bar = IF last_s THEN @ + 1 ELSE @]
           /\ ex_pc' = IF last_s /\ last_bar THEN "norm" ELSE "place"
    /\ UNCHANGED <<device, syn, engine, outdata, cb_pc, cb, ui_pc, blocks_left, presses_left,
                   edits_left, h_log, wav, dialog, exports_left, h_exports>>

\* lines 270-271: the normalisation step of export_wav
ExpNorm ==
    /\ ex_pc = "norm"
    /\ ex' = [ex EXCEPT !.out = ExpNormalize(ex.out)]
    /\ ex_pc' = "open"
    /\ UNCHANGED <<device, syn, engine, outdata, cb_pc, cb, ui_pc, blocks_left, presses_left,
                   edits_left, h_log, wav, dialog, exports_left, h_exports>>

\* line 273: wave.open(path, 'w').  It opens the file with open(path, 'wb'),
\* which creates or truncates it, or raises OSError and leaves the path as it
\* was; the exception leaves export_wav and do_export.
ExpOpen ==
    /\ ex_pc = "open"
    /\ \E opened \in BOOLEAN :
          IF opened
          THEN /\ wav' = WavPartial
               /\ ex_pc' = "write"
               /\ UNCHANGED <<ex, h_exports>>
          ELSE /\ h_exports' = Append(h_exports, Ended("open_failed", wav))
               /\ ex' = ExIdle
               /\ ex_pc' = "idle"
               /\ UNCHANGED wav
    /\ UNCHANGED <<device, syn, engine, outdata, cb_pc, cb, ui_pc, blocks_left, presses_left,
                   edits_left, h_log, dialog, exports_left>>

\* lines 274-277 and 709: the header fields, writeframes, close() at the end of
\* the with block, then the message box.  A write that raises OSError (disk
\* full, device gone) leaves through the with block, whose close() does not
\* remove the file, and through do_export without a message box.
ExpWrite ==
    /\ ex_pc = "write"
    /\ \E written \in BOOLEAN :
          IF written
          THEN /\ wav' = WavFile(ex.out)
               /\ dialog' = "complete"
               /\ h_exports' = Append(h_exports, Ended("complete", WavFile(ex.out)))
          ELSE /\ wav' = WavPartial
               /\ dialog' = "none"
               /\ h_exports' = Append(h_exports, Ended("write_failed", WavPartial))
    /\ ex' = ExIdle
    /\ ex_pc' = "idle"
    /\ UNCHANGED <<device, syn, engine, outdata, cb_pc, cb, ui_pc, blocks_left, presses_left,
                   edits_left, h_log, exports_left>>

---------------------------------------------------------------------------
(* AudioEngine.start and CatStudio26.on_close: the output device *)

\* self.stream is None ("none"), a stream that was opened and never started
\* ("unstarted"), the running stream ("started") or a closed one ("closed").
\* How the two calls of the try block can end:
StartOutcomes == {"started", "open_failed", "start_failed"}

\* the engine is in silent mode: start has run and the device is not running
Silent == ui_pc # "init" /\ stream \in {"none", "unstarted"}

EngineStartLoud ==
    /\ ui_pc = "init"
    /\ \E outcome \in StartOutcomes :
          /\ stream' = CASE outcome = "started"      -> "started"
                         [] outcome = "open_failed"  -> "none"
                         [] outcome = "start_failed" -> "unstarted"
          /\ reports' = reports
          /\ ui_pc' = IF outcome = "started" THEN "idle" ELSE "raised"
    /\ UNCHANGED <<syn, export, engine, outdata, cb_pc, cb, blocks_left, presses_left,
                   edits_left, h_log>>

\* AudioEngine.start, called once by CatStudio26.__init__ (line 308).
\* sd.OutputStream(...) raises and self.stream stays None, or it returns and
\* stream.start() raises, or both succeed; the bare except catches whatever
\* was raised and prints one line.
EngineStart ==
    /\ ui_pc = "init"
    /\ \E outcome \in StartOutcomes :
          /\ stream' = CASE outcome = "started"      -> "started"
                         [] outcome = "open_failed"  -> "none"
                         [] outcome = "start_failed" -> "unstarted"
          /\ reports' = IF outcome = "started" THEN reports ELSE reports + 1
          /\ ui_pc' = "idle"
    /\ UNCHANGED <<syn, export, engine, outdata, cb_pc, cb, blocks_left, presses_left,
                   edits_left, h_log>>

\* CatStudio26.on_close: `if self.engine.stream:` stops and closes the stream
\* object when there is one (sounddevice's stop and close ignore the error of
\* a stream that is not running), then destroys the window.
OnClose ==
    /\ ui_pc = "idle"
    /\ ex_pc = "idle"
    /\ stream' = IF stream = "none" THEN "none" ELSE "closed"
    /\ ui_pc' = "closed"
    /\ UNCHANGED <<reports, syn, export, engine, outdata, cb_pc, cb, blocks_left,
                   presses_left, edits_left, h_log>>

---------------------------------------------------------------------------
(* The synthesizers and the export normalisation as functions of their input *)

\* len(click) in synth_kick: int(0.005 * SAMPLE_RATE)
ClickLen == SynthLen(5)

\* The signal a synthesizer has built when it reaches its last two lines: n
\* samples of the stand-in shape, with the peak amp that the noise drawn by
\* np.random gives it.
RawSignal(n, head, tail, amp) == Scaled(SynthBuffer(n, head, tail), amp)

\* sig / max_val
SynthScaled(sig, max_val) ==
    [i \in 1..Len(sig) |-> [sig[i] EXCEPT !.v = TruncDiv(@ * 1000, max_val)]]

\* how a call ends
Raised == [state |-> "raised", data |-> <<>>]

Returned(data) == [state |-> "returned", data |-> data]

\* max_val = np.max(np.abs(sig));
\* return (sig / max_val).astype(np.float32) if max_val > 0 else sig
\* np.max raises ValueError on an array of no elements.
SynthReturn(sig) ==
    IF ArrLen(sig) = 0 THEN Raised
    ELSE LET max_val == MaxAbs(sig)
         IN  Returned(IF max_val > 0 THEN SynthScaled(sig, max_val) ELSE sig)

\* The four synthesizers, called with a duration of ms thousandths of a second.
\* synth_kick adds the click of ClickLen samples to sig[:ClickLen]: with fewer
\* than ClickLen samples in sig the shapes differ and numpy raises ValueError.
\* synth_clap takes np.max(env) of its envelope of n samples before the last
\* two lines.
Synthesize(fn, ms, amp) ==
    LET n == SynthLen(ms)
    IN  CASE fn = "synth_kick"  -> IF n < ClickLen THEN Raised
                                   ELSE SynthReturn(RawSignal(n, ClickLen, 600, amp))
          [] fn = "synth_snare" -> SynthReturn(RawSignal(n, 200, 400, amp))
          [] fn = "synth_hat"   -> SynthReturn(RawSignal(n, 100, 200, amp))
          [] fn = "synth_clap"  -> IF n = 0 THEN Raised
                                   ELSE SynthReturn(RawSignal(n, SynthLen(12), 300, amp))

SynFns == {"synth_kick", "synth_snare", "synth_hat", "synth_clap"}

\* durations the synthesizers are called with, in thousandths of a second:
\* none, shorter than the click, the click exactly, and the kit's
SynDurations == {0, 1, 4, 5, 6, 80, 250, 400, 500}

\* peaks of the raw signal
SynAmps == {700, 1600, 2500}

\* the table with every step but those of column step_idx switched off by
\* right clicks
OnlyColumn(chans, step_idx) ==
    [c \in 1..Len(chans) |->
        [chans[c] EXCEPT !.steps = [i \in 1..16 |-> IF i = step_idx + 1 THEN @[i] ELSE 0]]]

\* the table with every step switched off
Cleared(chans) == [c \in 1..Len(chans) |-> [chans[c] EXCEPT !.steps = [i \in 1..16 |-> 0]]]

\* export_wav lines 252-267 for a table whose active steps are all in column
\* 0: the buffer before it is normalised
ExportOfColumn0(chans, tempo) ==
    LET sps       == ExpSps(tempo)
        total_len == 16 * sps * 4
        b0 == [out |-> ExpZeros(total_len), placed |-> <<>>]
        b1 == ExpChannels(b0, chans, 1, 0, ExpTimeIdx(0, 0, sps), total_len)
        b2 == ExpChannels(b1, chans, 1, 0, ExpTimeIdx(1, 0, sps), total_len)
        b3 == ExpChannels(b2, chans, 1, 0, ExpTimeIdx(2, 0, sps), total_len)
        b4 == ExpChannels(b3, chans, 1, 0, ExpTimeIdx(3, 0, sps), total_len)
    IN  b4.out

\* the tables whose export is normalised: no step on, Kick and Hat on step 0,
\* Hat alone on step 0
NormGrids ==
    {Cleared(KitChannels), OnlyColumn(KitChannels, 0),
     StepAction(OnlyColumn(KitChannels, 0), 0, 0, FALSE)}

\* the tempos of the exports that are normalised
NormBpms == {120, 140, 400}

SynIdle ==
    [fn |-> "none", ms |-> 0, amp |-> 0, input |-> <<>>, state |-> "idle", data |-> <<>>]

\* a synthesizer about to run
SynCalls ==
    {[fn |-> f, ms |-> d, amp |-> a, input |-> <<>>, state |-> "called", data |-> <<>>] :
        f \in SynFns, d \in SynDurations, a \in SynAmps}

\* export_wav about to normalise
NormCalls ==
    {[fn |-> "export_wav", ms |-> 0, amp |-> 0, input |-> ExportOfColumn0(g, t),
      state |-> "called", data |-> <<>>] : g \in NormGrids, t \in NormBpms}

\* one of the synthesizers runs
SynthCall ==
    /\ syn.state = "called"
    /\ syn.fn \in SynFns
    /\ LET r == Synthesize(syn.fn, syn.ms, syn.amp)
       IN  syn' = [syn EXCEPT !.state = r.state, !.data = r.data]
    /\ UNCHANGED <<device, export, engine, outdata, cb_pc, cb, ui_pc, blocks_left,
                   presses_left, edits_left, h_log>>

\* export_wav lines 270-271 run on the buffer
NormCall ==
    /\ syn.state = "called"
    /\ syn.fn = "export_wav"
    /\ syn' = [syn EXCEPT !.state = "returned", !.data = ExpNormalize(syn.input)]
    /\ UNCHANGED <<device, export, engine, outdata, cb_pc, cb, ui_pc, blocks_left,
                   presses_left, edits_left, h_log>>

---------------------------------------------------------------------------
(* Specifications *)

\* AudioEngine.__init__ and load_kit: the engine as CatStudio26.__init__ leaves it
Init ==
    /\ bpm = 140
    /\ playing = FALSE
    /\ sample_pos = 0
    /\ current_step = 0
    /\ channels = KitChannels
    /\ voices = <<>>
    /\ meter_levels = [i \in 1..(NumCh + 1) |-> 0]
    /\ outdata = <<>>
    /\ cb_pc = "idle"
    /\ cb = CbIdle
    /\ ui_pc = "idle"
    /\ blocks_left = MaxBlocks
    /\ presses_left = MaxPresses
    /\ edits_left = MaxEdits
    /\ h_log = <<>>
    /\ ex_pc = "idle"
    /\ ex = ExIdle
    /\ wav = WavNone
    /\ dialog = "none"
    /\ exports_left = 0
    /\ h_exports = <<>>
    /\ stream = "started"
    /\ reports = 0
    /\ syn = SynIdle

Callback ==
    \/ CbEnter \/ CbSps \/ CbRange \/ CbTrigger \/ CbLoopEnd \/ CbChan
    \/ CbAdvRead \/ CbAdvWrite \/ CbMixStart \/ CbMixVoice \/ CbFinish

Next ==
    \/ Callback
    \/ CbSpsRaise
    \/ PlayStop \/ PlayStopPos \/ PlayStopStep \/ PlayStopVoices
    \/ UpdateBpm \/ StepClick \/ KnobClick

\* the user and the audio thread, interleaved
Spec == Init /\ [][Next]_vars

\* the tempos of the undisturbed runs: set in the tempo box before Play
SeqBpms == {120, 140, 375, 66150}

\* the grids of the undisturbed runs: the kit, and the kit after a right click
\* on step 8 of the Kick row (Kick on step 0 only)
SeqGrids == {KitChannels, StepAction(KitChannels, 0, 8, FALSE)}

\* the engine right after Play from a cold start, with the user idle from then on
InitSeq ==
    /\ bpm \in SeqBpms
    /\ playing = TRUE
    /\ sample_pos = 0
    /\ current_step = 0
    /\ channels \in SeqGrids
    /\ voices = <<>>
    /\ meter_levels = [i \in 1..(NumCh + 1) |-> 0]
    /\ outdata = <<>>
    /\ cb_pc = "idle"
    /\ cb = CbIdle
    /\ ui_pc = "idle"
    /\ blocks_left = SeqBlocks
    /\ presses_left = 0
    /\ edits_left = 0
    /\ h_log = <<>>
    /\ ex_pc = "idle"
    /\ ex = ExIdle
    /\ wav = WavNone
    /\ dialog = "none"
    /\ exports_left = 0
    /\ h_exports = <<>>
    /\ stream = "started"
    /\ reports = 0
    /\ syn = SynIdle

\* undisturbed playback: callbacks only
SpecSeq == InitSeq /\ [][Callback]_vars

\* the tempos of the runs with exports
ExpBpms == {120, 140}

\* the engine when the user turns to File > Export: stopped or just started
InitExp ==
    /\ bpm \in ExpBpms
    /\ playing \in BOOLEAN
    /\ sample_pos = 0
    /\ current_step = 0
    /\ channels = KitChannels
    /\ voices = <<>>
    /\ meter_levels = [i \in 1..(NumCh + 1) |-> 0]
    /\ outdata = <<>>
    /\ cb_pc = "idle"
    /\ cb = CbIdle
    /\ ui_pc = "idle"
    /\ blocks_left = ExpBlocks
    /\ presses_left = 0
    /\ edits_left = 0
    /\ h_log = <<>>
    /\ ex_pc = "idle"
    /\ ex = ExIdle
    /\ wav = WavNone
    /\ dialog = "none"
    /\ exports_left = MaxExports
    /\ h_exports = <<>>
    /\ stream = "started"
    /\ reports = 0
    /\ syn = SynIdle

Export == ExpBegin \/ ExpPlace \/ ExpNorm \/ ExpOpen \/ ExpWrite

NextExp == Export \/ Callback

\* exports from the File menu, with the audio thread running
SpecExp == InitExp /\ [][NextExp]_vars

\* the engine right after Play from a cold start at the default tempo
InitTempo ==
    /\ bpm = 140
    /\ playing = TRUE
    /\ sample_pos = 0
    /\ current_step = 0
    /\ channels = KitChannels
    /\ voices = <<>>
    /\ meter_levels = [i \in 1..(NumCh + 1) |-> 0]
    /\ outdata = <<>>
    /\ cb_pc = "idle"
    /\ cb = CbIdle
    /\ ui_pc = "idle"
    /\ blocks_left = TempoBlocks
    /\ presses_left = 0
    /\ edits_left = MaxEdits
    /\ h_log = <<>>
    /\ ex_pc = "idle"
    /\ ex = ExIdle
    /\ wav = WavNone
    /\ dialog = "none"
    /\ exports_left = 0
    /\ h_exports = <<>>
    /\ stream = "started"
    /\ reports = 0
    /\ syn = SynIdle

\* playback with the tempo box used between two render calls
NextTempo ==
    \/ Callback
    \/ cb_pc = "idle" /\ UpdateBpmInRange

SpecTempo == InitTempo /\ [][NextTempo]_vars

\* CatStudio26.__init__ between load_kit (line 307) and engine.start (line 308)
InitDev ==
    /\ bpm = 140
    /\ playing = FALSE
    /\ sample_pos = 0
    /\ current_step = 0
    /\ channels = KitChannels
    /\ voices = <<>>
    /\ meter_levels = [i \in 1..(NumCh + 1) |-> 0]
    /\ outdata = <<>>
    /\ cb_pc = "idle"
    /\ cb = CbIdle
    /\ ui_pc = "init"
    /\ blocks_left = DevBlocks
    /\ presses_left = DevPresses
    /\ edits_left = MaxEdits
    /\ h_log = <<>>
    /\ ex_pc = "idle"
    /\ ex = ExIdle
    /\ wav = WavNone
    /\ dialog = "none"
    /\ exports_left = DevExports
    /\ h_exports = <<>>
    /\ stream = "none"
    /\ reports = 0
    /\ syn = SynIdle

\* With no running stream there is no audio thread: callback runs only when
\* it is called as a function, between two handlers, and returns before the
\* next handler starts.  NoCall: a handler may run; NoHandler: the call may.
NoCall == Silent /\ cb_pc = "idle"

NoHandler == Silent /\ ui_pc = "idle" /\ ex_pc = "idle"

NextDev ==
    \/ EngineStart
    \/ NoCall /\ PlayStop
    \/ NoCall /\ PlayStopPos
    \/ NoCall /\ PlayStopStep
    \/ NoCall /\ PlayStopVoices
    \/ NoCall /\ StepClick
    \/ NoCall /\ KnobClick
    \/ NoCall /\ ExpBegin
    \/ NoCall /\ ExpPlace
    \/ NoCall /\ ExpNorm
    \/ NoCall /\ ExpOpen
    \/ NoCall /\ ExpWrite
    \/ NoHandler /\ CbEnter
    \/ NoHandler /\ CbSps
    \/ NoHandler /\ CbRange
    \/ NoHandler /\ CbTrigger
    \/ NoHandler /\ CbLoopEnd
    \/ NoHandler /\ CbChan
    \/ NoHandler /\ CbAdvRead
    \/ NoHandler /\ CbAdvWrite
    \/ NoHandler /\ CbMixStart
    \/ NoHandler /\ CbMixVoice
    \/ NoHandler /\ CbFinish
    \/ cb_pc = "idle" /\ OnClose

\* start-up with a device that may fail, and the silent mode that follows
SpecDev == InitDev /\ [][NextDev]_vars

\* a synthesizer or the export normalisation about to run on one of the inputs
InitSyn ==
    /\ bpm = 140
    /\ playing = FALSE
    /\ sample_pos = 0
    /\ current_step = 0
    /\ channels = KitChannels
    /\ voices = <<>>
    /\ meter_levels = [i \in 1..(NumCh + 1) |-> 0]
    /\ outdata = <<>>
    /\ cb_pc = "idle"
    /\ cb = CbIdle
    /\ ui_pc = "idle"
    /\ blocks_left = 0
    /\ presses_left = 0
    /\ edits_left = 0
    /\ h_log = <<>>
    /\ ex_pc = "idle"
    /\ ex = ExIdle
    /\ wav = WavNone
    /\ dialog = "none"
    /\ exports_left = 0
    /\ h_exports = <<>>
    /\ stream = "started"
    /\ reports = 0
    /\ syn \in SynCalls \cup NormCalls

NextSyn == SynthCall \/ NormCall

\* the synthesizers and the normalisation, each applied to each input
SpecSyn == InitSyn /\ [][NextSyn]_vars


---------------------------------------------------------------------------
(* Claims *)

\* a render call has returned (normally or by raising)
CallDone == cb_pc \in {"idle", "raised"}

\* the voices one step boundary makes from channel table chans: one per
\* channel whose grid has step idx on, in channel order, none for the others
MadeFrom(chans, idx) ==
    LET On(c) == chans[c].steps[idx + 1] # 0
        cs    == SelectSeq([c \in 1..Len(chans) |-> c], On)
    IN  [i \in 1..Len(cs) |->
            [ch |-> cs[i], vol |-> chans[cs[i]].vol, pan |-> chans[cs[i]].pan]]

\* C1: after every render call the number of active voices is at most
\* MAX_VOICES = 64.
C1_VoiceCap == CallDone => Len(voices) <= MAX_VOICES

\* C2: the first buffer sample of a voice triggered at boundary T in the block
\* [S, S+F) is mixed into output frame T - S of that block.
C2_FirstSampleAtOffset ==
    \A i \in 1..Len(cb.placed) :
        cb.placed[i].pos = 0 => cb.placed[i].frame = cb.placed[i].h_off

\* C3: once a stop has completed and the render call that was in progress has
\* finished, the engine is stopped with elapsed = 0, step = 0 and no voices.
C3_StopResets ==
    (~playing /\ ui_pc = "idle" /\ CallDone)
        => (sample_pos = 0 /\ current_step = 0 /\ voices = <<>>)

\* C4: a start (STOPPED -> RUNNING) leaves the engine with elapsed = 0,
\* step = 0 and no active voices.
C4_StartFromZero ==
    [][(~playing /\ playing')
          => (sample_pos' = 0 /\ current_step' = 0 /\ voices' = <<>>)]_vars

\* C5: the voices a render call triggers are those of the channel table as it
\* was when the call started: an edit made during the call does not show in them.
C5_EditsNotMidBlock ==
    cb_pc = "adv_read" =>
        \A i \in (cb.h_first + 1)..Len(h_log) :
            h_log[i].made = MadeFrom(cb.h_snap, h_log[i].idx)

\* C6: the engine tempo is always within 20..400 BPM.
C6_TempoClamped == bpm \in 20..400

\* C7: a render call never raises an exception to the audio subsystem.
C7_NoRaise == cb_pc # "raised"

\* C8: with a constant tempo, from a cold start, after every render call the
\* boundaries triggered so far are k = 0, 1, 2, ... in order, each once, each in
\* the block [S, S+F) that holds T = floor(k * sps), with step index k mod 16 and
\* exactly one voice per channel whose grid has that step on; no boundary
\* before the elapsed position is missing; boundary 16K lies within one sample
\* of 16K * sps.
C8_EveryBoundaryOnce ==
    cb_pc = "idle" =>
        /\ \A i \in 1..Len(h_log) :
              LET e == h_log[i]
              IN  /\ e.k = i - 1
                  /\ e.T = TriggerTime(e.k, bpm)
                  /\ e.S % frames = 0
                  /\ e.S <= e.T /\ e.T < e.S + frames
                  /\ e.T < sample_pos
                  /\ e.idx = e.k % 16
                  /\ e.made = MadeFrom(channels, e.idx)
                  /\ (e.k % 16 = 0 =>
                        (0 <= e.k * SpsNum - e.T * bpm /\ e.k * SpsNum - e.T * bpm < bpm))
        /\ TriggerTime(Len(h_log), bpm) >= sample_pos

\* C8 witness: a run with a fractional samplesPerStep (120 BPM: 5512.5) has gone
\* round the 16-step grid, with boundaries inside blocks and not only at their start
C8_Witness ==
    /\ cb_pc = "idle"
    /\ bpm = 120
    /\ Len(h_log) >= 18
    /\ \E i \in 1..Len(h_log) : h_log[i].T > h_log[i].S /\ h_log[i].k = 17
    /\ channels # KitChannels

\* C9: while running, after every render call the current step equals
\* floor(elapsed / samplesPerStep) mod 16.
C9_StepIsFloor ==
    (playing /\ cb_pc = "idle" /\ blocks_left < SeqBlocks)
        => (current_step \in 0..15 /\ current_step = StepOf(sample_pos, bpm) % 16)

\* C10: every sample of a block handed to the device lies in [-1, 1].
C10_OutputClipped ==
    \A i \in 1..Len(outdata) :
        /\ -1000 <= outdata[i].l /\ outdata[i].l <= 1000
        /\ -1000 <= outdata[i].r /\ outdata[i].r <= 1000

\* C10 witness: the first block of a run summed to a peak above 1 (the master
\* meter holds the peak before the clip) and was handed over with peak 1
C10_Witness ==
    /\ cb_pc = "idle"
    /\ blocks_left = SeqBlocks - 1
    /\ meter_levels[NumCh + 1] > 1000
    /\ MaxAbs2(outdata) = 1000

\* C11: every per-channel meter level and the master meter level lies in [0, 1],
\* also after a block whose overlapping voices sum to a peak above 1.
C11_MetersInUnitRange ==
    \A i \in 1..Len(meter_levels) : 0 <= meter_levels[i] /\ meter_levels[i] <= 1000

\* the last export that has ended
LastExport == h_exports[Len(h_exports)]

\* C12: export_wav adds the buffer of every active step of every channel, in
\* every repeat, at sample offset (repeat*16 + step) * samplesPerStep of the
\* export buffer; no active step is left out.
C12_ExportPlacesEveryStep ==
    ex_pc = "norm" =>
        \A bar \in 0..3, s \in 0..15, c \in 1..Len(channels) :
            StepOn(channels[c], s) =>
                \E i \in 1..Len(ex.placed) :
                    ex.placed[i] = [ch |-> c, at |-> TriggerTime(bar * 16 + s, bpm),
                                    len |-> BufLen[channels[c].data]]

\* C13: for R = 4 repeats the export buffer has exactly R * 16 * samplesPerStep
\* frames, samplesPerStep = (60/tempo/4) * sampleRate = SpsNum / tempo.
C13_ExportLength ==
    ex_pc = "norm" =>
        /\ ex.total_len * bpm = 4 * 16 * SpsNum
        /\ ex.out[Len(ex.out)].to = ex.total_len

\* C14: after an export that failed, no partial file is left at the destination
\* and the UI has not shown "Export Complete".
C14_ExportAllOrNothing ==
    (ex_pc = "idle" /\ h_exports # <<>> /\ LastExport.result # "complete")
        => (wav.state # "partial" /\ dialog # "complete")

\* C15: in no state are export_wav, inside its placement loop over
\* self.channels, and a render call, inside its loop over self.channels, both
\* at work on the one live channel table.
C15_ExportIsolated == ~(ex_pc = "place" /\ cb_pc = "chan")

\* C16: two completed exports with the same channel table and tempo (the repeat
\* count is fixed at 4) wrote the same file, whatever the transport was at the
\* time of each.
C16_ExportDeterministic ==
    \A i, j \in 1..Len(h_exports) :
        (/\ h_exports[i].result = "complete"
         /\ h_exports[j].result = "complete"
         /\ h_exports[i].chans = h_exports[j].chans
         /\ h_exports[i].bpm = h_exports[j].bpm)
            => h_exports[i].file = h_exports[j].file

\* C16 witness: two completed exports of the same table and tempo, the second
\* started with the engine further on (elapsed samples, live voices, meters),
\* and the file is not silence
C16_Witness ==
    /\ Len(h_exports) = 2
    /\ h_exports[1].result = "complete" /\ h_exports[2].result = "complete"
    /\ h_exports[1].chans = h_exports[2].chans /\ h_exports[1].bpm = h_exports[2].bpm
    /\ h_exports[1].transport[2] = 0 /\ h_exports[2].transport[2] = BLOCK_SIZE
    /\ h_exports[1].transport[3] = 0 /\ h_exports[2].transport[3] > 0
    /\ h_exports[1].transport[4] # h_exports[2].transport[4]
    /\ \E k \in 1..Len(wav.frames) : wav.frames[k].l # 0

\* C17: a render call reads the tempo once, at line 168, and every step
\* boundary it computes (the range of steps, each trigger time) uses that value,
\* also when the tempo box changes self.bpm later in the call; the next call
\* reads the tempo anew.
C17_TempoFixedPerCall ==
    [][/\ (cb_pc = "sps" /\ cb_pc' = "range") => cb'.tempo = bpm
       /\ (cb_pc \in {"range", "loop", "chan"}) => cb'.tempo = cb.tempo
       /\ (cb_pc = "range" /\ cb_pc' = "loop") =>
             /\ cb'.s = StepOf(cb'.start, cb.tempo)
             /\ cb'.end_step = StepOf(cb'.end, cb.tempo)
       /\ Len(h_log') > Len(h_log) =>
             LET e == h_log'[Len(h_log')]
             IN  /\ e.T = TriggerTime(e.k, cb.tempo)
                 /\ cb.start <= e.T /\ e.T < cb.end
      ]_vars

\* C17 witness: the second render call read 140 BPM, the tempo box then set
\* 1000 BPM, and the call ended its step loop with no trigger, although at the
\* live tempo a boundary (step 1 at sample 661) lies in its block
C17_Witness ==
    /\ cb_pc = "adv_read"
    /\ cb.start = BLOCK_SIZE
    /\ cb.tempo = 140 /\ bpm = 1000
    /\ Len(h_log) = cb.h_first
    /\ \E s \in 0..2 : cb.start <= TriggerTime(s, bpm) /\ TriggerTime(s, bpm) < cb.end

\* the chunks of this call whose voice goes on after it
KeptChunks ==
    LET Goes(p) == p.pos + p.count < BufLen[p.data]
    IN  SelectSeq(cb.placed, Goes)

\* C18: with no stop in between, each voice adds its buffer to the output once
\* and in order: in every render call since its trigger it adds the next
\* min(F, remaining) samples, starting where the call before stopped, and it
\* leaves the list exactly when the samples added reach the buffer length.
C18_VoicePlaysThrough ==
    cb_pc = "finish" =>
        /\ Len(cb.placed) = Len(voices)
        /\ \A i \in 1..Len(cb.placed) :
              LET p == cb.placed[i]
              IN  /\ p.data = voices[i].data /\ p.pos = voices[i].pos
                  /\ p.pos = p.h_done
                  /\ p.pos = p.h_calls * frames
                  /\ p.count = Min(frames, BufLen[p.data] - p.pos)
                  /\ p.count > 0
                  /\ (p.pos + p.count < BufLen[p.data]
                        \/ p.h_done + p.count = BufLen[p.data])
        /\ Len(cb.active) = Len(KeptChunks)
        /\ \A j \in 1..Len(cb.active) :
              /\ cb.active[j].data = KeptChunks[j].data
              /\ cb.active[j].pos = KeptChunks[j].pos + KeptChunks[j].count
              /\ cb.active[j].h_done = cb.active[j].pos

\* C18 witness: a voice that has crossed block boundaries adds its last, short
\* chunk and is complete
C18_Witness ==
    /\ cb_pc = "finish"
    /\ \E i \in 1..Len(cb.placed) :
          LET p == cb.placed[i]
          IN  /\ p.h_calls >= 6
              /\ p.count < frames
              /\ p.h_done + p.count = BufLen[p.data]
              /\ \A j \in 1..Len(cb.active) : cb.active[j].data # p.data

\* ceil(a / b) for a >= 0, b > 0
CeilDiv(a, b) == (a + b - 1) \div b

\* C19: after every render call each voice in the list has its cursor below the
\* buffer length, and has been through fewer than ceil(bufferLength / F) calls:
\* the call in which the cursor reaches the end removes it.
C19_FinishedVoicesLeave ==
    cb_pc = "idle" =>
        \A i \in 1..Len(voices) :
            /\ voices[i].pos < BufLen[voices[i].data]
            /\ voices[i].h_calls >= 1
            /\ voices[i].h_calls < CeilDiv(BufLen[voices[i].data], frames)

\* C19 witness: seven calls after step 0 at 140 BPM the Hat voice (3528 samples,
\* ceil(3528/512) = 7) has left the list and the Kick voice of the same step
\* is still in it
C19_Witness ==
    /\ cb_pc = "idle"
    /\ bpm = 140
    /\ Len(h_log) = 1
    /\ \E m \in 1..Len(h_log[1].made) : h_log[1].made[m].ch = 3
    /\ \A i \in 1..Len(voices) : voices[i].data # 3
    /\ \E i \in 1..Len(voices) : voices[i].data = 1 /\ voices[i].h_calls = 7

\* the peak in this block of the voices of channel i (of what they added,
\* gain applied), and for the last index the peak of the whole mix
BlockPeak(i) ==
    IF i = Len(meter_levels)
    THEN MaxAbs2(cb.out)
    ELSE LET S == {MaxAbs(Scaled(Slice(Buffer[cb.placed[k].data], cb.placed[k].pos,
                                       cb.placed[k].count), cb.placed[k].vol)) :
                     k \in {k \in 1..Len(cb.placed) : cb.placed[k].data = channels[i].data}}
         IN  IF S = {} THEN 0 ELSE CHOOSE x \in S : \A y \in S : y <= x

\* C20: a render call leaves every meter level at max(blockPeak, 0.9 * the
\* level before the call).
C20_MeterFollowsPeak ==
    [][(cb_pc = "finish" /\ cb_pc' = "idle") =>
          \A i \in 1..Len(meter_levels) :
              meter_levels'[i] = Max(BlockPeak(i), (meter_levels[i] * 9) \div 10)
      ]_vars

\* C20 witness: nine calls into a run at 140 BPM the Hat meter, with no Hat
\* voice left, has decayed from 285 to 256, the Kick meter stands at the peak of
\* the Kick's tail (0.54 > 0.9 * 0.54) and the master has decayed from 534 to 480
C20_Witness ==
    /\ cb_pc = "idle"
    /\ bpm = 140
    /\ blocks_left = SeqBlocks - 9
    /\ \A i \in 1..Len(voices) : voices[i].data # 3
    /\ meter_levels[3] = 256
    /\ meter_levels[1] = 540
    /\ meter_levels[NumCh + 1] = 480

\* the mono array a holds a sample that is not zero
NonZero(a) == \E i \in 1..Len(a) : a[i].v # 0

\* the export buffer out holds a sample that is not zero
NonZero2(out) == \E i \in 1..Len(out) : out[i].l # 0 \/ out[i].r # 0

\* C21: after the normalisation of export_wav the peak absolute sample of the
\* buffer is 1 whenever a sample of it was not zero, and a buffer of zeros
\* (no active step) comes back as it was, with no division; the buffer a
\* synthesizer returns obeys the same rule: its peak is 1 unless it is all zero.
C21_NormalizedPeak ==
    /\ syn.fn = "export_wav" => syn.state # "raised"
    /\ (syn.fn = "export_wav" /\ syn.state = "returned") =>
          /\ NonZero2(syn.input) => ExpPeak(syn.data) = 1000
          /\ ~NonZero2(syn.input) => syn.data = syn.input
    /\ (syn.fn \in SynFns /\ syn.state = "returned") =>
          /\ NonZero(syn.data) => MaxAbs(syn.data) = 1000
          /\ syn.amp > 0 => NonZero(syn.data)

\* an export buffer with sound in it, peak below 1 before and 1 after
C21_Witness ==
    /\ syn.fn = "export_wav"
    /\ syn.state = "returned"
    /\ ExpPeak(syn.input) > 0
    /\ ExpPeak(syn.input) < 1000
    /\ ExpPeak(syn.data) = 1000

\* C23: each synthesizer returns exactly int(duration * SAMPLE_RATE) samples
\* for every duration >= 0, and returns without raising also when that is no
\* sample at all or fewer samples than the kick's 5 ms click.
C23_SynthLength ==
    (syn.fn \in SynFns /\ syn.state # "called") =>
        /\ syn.state = "returned"
        /\ ArrLen(syn.data) = SynthLen(syn.ms)

\* the places a handler or a render call can be at that are not an exception
\* on its way out
DevPlaces ==
    /\ ui_pc \in {"init", "idle", "stop_pos", "stop_step", "stop_voices", "closed"}
    /\ ex_pc \in {"idle", "place", "norm", "open", "write"}
    /\ cb_pc \in {"idle", "sps", "range", "loop", "chan", "adv_read", "adv_write",
                  "mix", "voice", "finish"}

\* C22: when opening or starting the output device fails, no exception leaves
\* AudioEngine.start, the failure is reported exactly once, and the engine
\* stays usable in silent mode: whenever it is at rest a Play/Stop click, an
\* edit, an export and a render call can each be started, and none of them is
\* ever at an exception or unable to take the step it is at (the steps whose
\* only condition is the place reached are covered by DevPlaces).
C22_SilentMode ==
    /\ DevPlaces
    /\ Silent => reports = 1
    /\ stream \in {"started", "closed"} => reports <= 1
    /\ (Silent /\ ui_pc = "idle" /\ ex_pc = "idle" /\ cb_pc = "idle") =>
          /\ presses_left > 0 => ENABLED PlayStop
          /\ edits_left > 0 => ENABLED StepClick /\ ENABLED KnobClick
          /\ exports_left > 0 => ENABLED ExpBegin
          /\ (blocks_left > 0 /\ Len(voices) <= MaxLiveVoices) => ENABLED CbEnter
    /\ (Silent /\ ui_pc \in {"stop_pos", "stop_step", "stop_voices"}) =>
          ENABLED (PlayStopPos \/ PlayStopStep \/ PlayStopVoices)
    /\ (Silent /\ ex_pc = "open") => ENABLED ExpOpen
    /\ (Silent /\ ex_pc = "write") => ENABLED ExpWrite
    /\ (Silent /\ cb_pc = "sps") => ENABLED CbSps

\* silent mode after a failed start, with a Play click, an edit, an export and
\* a render call all done
C22_Witness ==
    /\ Silent
    /\ reports = 1
    /\ playing
    /\ edits_left = 0
    /\ Len(h_exports) = 1
    /\ h_exports[1].result = "complete"
    /\ outdata # <<>>
    /\ cb_pc = "idle"

\* the cells (channel, step) of the grid
Cells == {<<c, i>> : c \in 0..(NumCh - 1), i \in 0..15}

\* the tables a and b are the same but for the one cell
OnlyCellDiffers(a, b, cell) ==
    b = [a EXCEPT ![cell[1] + 1].steps[cell[2] + 1] = b[cell[1] + 1].steps[cell[2] + 1]]

\* every cell is off (0) or on (1), and in the table as it is now a left click
\* on a cell the user clicks flips that cell and a right click switches it
\* off, with every other cell and every gain and pan as before
C24_CellsAndClicks ==
    /\ \A c \in 1..NumCh : channels[c].steps \in [1..16 -> {0, 1}]
    /\ \A cell \in EditCells :
          LET old     == channels[cell[1] + 1].steps[cell[2] + 1]
              flipped == StepAction(channels, cell[1], cell[2], TRUE)
              cleared == StepAction(channels, cell[1], cell[2], FALSE)
          IN  /\ flipped[cell[1] + 1].steps[cell[2] + 1] = 1 - old
              /\ OnlyCellDiffers(channels, flipped, cell)
              /\ cleared[cell[1] + 1].steps[cell[2] + 1] = 0
              /\ OnlyCellDiffers(channels, cleared, cell)

\* a step that changes the grid changes one cell of it and neither a gain, a
\* pan, the tempo nor the transport
C24_ClickFrame ==
    (\E c \in 1..NumCh : channels'[c].steps # channels[c].steps) =>
        /\ \E cell \in Cells : OnlyCellDiffers(channels, channels', cell)
        /\ bpm' = bpm
        /\ playing' = playing
        /\ sample_pos' = sample_pos
        /\ current_step' = current_step
        /\ voices' = voices

\* C24: the step command flips exactly the one grid cell it is given between
\* off and on and leaves every other cell, every gain and pan, the tempo and
\* the transport unchanged; every cell stays off or on.
C24_ToggleOneCell == []C24_CellsAndClicks /\ [][C24_ClickFrame]_vars

\* the Clap's step 0, off in the kit, is on after a click made while the
\* engine plays with voices sounding
C24_Witness ==
    /\ channels[2].steps[1] = 1
    /\ OnlyCellDiffers(KitChannels, channels, <<1, 0>>)
    /\ playing
    /\ sample_pos > 0
    /\ voices # <<>>

\* C25: while the engine is stopped, no step of a render call creates a voice,
\* advances the elapsed samples or hands a block that is not silent to the
\* device, however the stop and a running render call interleave: no voice
\* from before the stop is put back.
C25_StoppedIsInert ==
    [][(~playing /\ ui_pc = "idle" /\ ~playing' /\ ui_pc' = "idle") =>
          /\ Len(voices') <= Len(voices)
          /\ sample_pos' = sample_pos
          /\ outdata' # outdata => MaxAbs2(outdata') = 0]_vars

\* C26: a Stop click while stopped leaves the engine stopped and a Play click
\* while running leaves it running: whichever button a click on the transport
\* bar was made on, Stop never leaves the engine playing and Play never leaves
\* it stopped.
C26_ButtonsIdempotent ==
    [][(presses_left' = presses_left - 1) =>
          \A button \in Buttons :
             (playing' = AfterClick(button, playing)) =>
                 /\ button = "stop" => ~playing'
                 /\ button = "play" => playing']_vars

\* C27: while the engine runs, the step indices of consecutive triggered
\* boundaries advance by exactly one modulo 16 (none skipped, none fired
\* twice), also when the tempo is changed between render calls.
C27_StepsAdvanceByOne ==
    \A i \in 2..Len(h_log) : h_log[i].idx = (h_log[i - 1].idx + 1) % 16

\* C28: for the same table and tempo the exporter places global step k at the
\* sample offset at which a render call triggers step k after a cold start,
\* floor(k * samplesPerStep), for every step it places.
C28_ExportOffsetsAsPlayback ==
    ex_pc = "norm" =>
        \A i \in 1..Len(ex.placed) :
            LET k == ex.placed[i].at \div ex.sps
            IN  /\ ex.placed[i].at = ExpTimeIdx(k \div 16, k % 16, ex.sps)
                /\ ex.placed[i].at = TriggerTime(k, bpm)

\* every voice still holds, and every chunk mixed in this call was mixed
\* with, the gain and the pan its channel had when the voice was triggered
C29_GainPanAsTriggered ==
    /\ \A i \in 1..Len(voices) :
          voices[i].vol = voices[i].h_vol /\ voices[i].pan = voices[i].h_pan
    /\ \A i \in 1..Len(cb.placed) :
          cb.placed[i].vol = cb.placed[i].h_vol /\ cb.placed[i].pan = cb.placed[i].h_pan

\* the voice the channel loop creates has the gain and pan its channel has at
\* that moment, and a step that changes the channel table changes no voice
C29_KnobFrame ==
    /\ (cb_pc = "chan" /\ Len(voices') = Len(voices) + 1) =>
          LET v == voices'[Len(voices')]
          IN  v.vol = channels[v.h_ch].vol /\ v.pan = channels[v.h_ch].pan
    /\ channels' # channels => voices' = voices /\ cb' = cb

\* C29: a voice keeps the gain and the pan that were in effect when it was
\* triggered for as long as it plays; a later knob reset on its channel
\* affects only the voices triggered afterwards.
C29_VoiceKeepsGainPan == []C29_GainPanAsTriggered /\ [][C29_KnobFrame]_vars

\* a Kick voice triggered at gain 0.9 has a later chunk mixed at 0.9 in a
\* call that started after the Kick's volume knob was reset to 0.8
C29_Witness ==
    /\ cb_pc = "finish"
    /\ channels[1].vol = 800
    /\ cb.h_snap[1].vol = 800
    /\ \E i \in 1..Len(cb.placed) :
          /\ cb.placed[i].h_ch = 1
          /\ cb.placed[i].pos > 0
          /\ cb.placed[i].vol = 900

\* the peak in this block of the chunks of the voices that channel i
\* triggered, gain applied
TriggeredPeak(i) ==
    LET S == {MaxAbs(Scaled(Slice(Buffer[cb.placed[k].data], cb.placed[k].pos,
                                  cb.placed[k].count), cb.placed[k].vol)) :
                k \in {k \in 1..Len(cb.placed) : cb.placed[k].h_ch = i}}
    IN  IF S = {} THEN 0 ELSE CHOOSE x \in S : \A y \in S : y <= x

\* C30: the block peak of a voice is attributed to exactly the channel that
\* triggered it and to no other: at the end of the voice loop the energy of
\* each channel is the peak of the chunks of its own voices, and a channel
\* none of whose voices played in the block never has its meter raised.
C30_MeterAttribution ==
    /\ [](cb_pc = "finish" =>
             \A i \in 1..NumCh : cb.mix_energy[i] = TriggeredPeak(i))
    /\ [][(cb_pc = "finish" /\ cb_pc' = "idle") =>
             \A i \in 1..NumCh :
                 (\A k \in 1..Len(cb.placed) : cb.placed[k].h_ch # i) =>
                     meter_levels'[i] <= meter_levels[i]]_vars

\* after the first block at 140 BPM the Kick and the Hat, triggered on step 0,
\* show their peaks and the three channels with no voice show nothing
C30_Witness ==
    /\ cb_pc = "idle"
    /\ bpm = 140
    /\ blocks_left = SeqBlocks - 1
    /\ meter_levels[1] = 900 /\ meter_levels[3] = 600
    /\ meter_levels[2] = 0 /\ meter_levels[4] = 0 /\ meter_levels[5] = 0
    /\ \E i \in 1..Len(voices) : voices[i].h_ch = 1
    /\ \E i \in 1..Len(voices) : voices[i].h_ch = 3

====
